---- MODULE Spec2Model ----
(***************************************************************************)
(* Model of MLClassification/KNN.ipynb: a K-nearest-neighbours classifier  *)
(* (sklearn KNeighborsClassifier, uniform weights, Euclidean metric), the  *)
(* StandardScaler, the accuracy scores, the null accuracy, the three        *)
(* K-sweeps and the rescaling exercise of the notebook, executed cell by   *)
(* cell.                                                                   *)
(*                                                                         *)
(* Feature values are fixed-point numbers: the integer v stands for the    *)
(* real v / Scale.  Accuracies are kept as fractions num/den.              *)
(***************************************************************************)
EXTENDS Integers, Sequences, FiniteSets, TLC

\* ---------------------------------------------------------------- bounds
NRows == 3        \* rows of the data set read from the CSV file
NFeat == 2        \* feature columns (columns of feature_cols other than blk,
                  \* pf being the last)
MaxVal == 1       \* raw feature values are 0..MaxVal
NumLabels == 2    \* pos_num values are 0..NumLabels-1
Scale == 10       \* fixed-point resolution of a feature value

MaxLen == 3       \* longest label vector handed to a score on its own
MaxFactor == 3    \* largest factor by which a feature column is rescaled
MaxWide == 2      \* raw values of the columns other than pf are 0..MaxWide
                  \* in the data sets that are rescaled

Labels == 0 .. (NumLabels - 1)
LabelSeqs == UNION {[1 .. n -> Labels] : n \in 0 .. MaxLen}
RawVals == {Scale * v : v \in 0 .. MaxVal}
Points == [1 .. NFeat -> RawVals]

\* ------------------------------------------------------- generic helpers
RECURSIVE SumSeq(_)
SumSeq(s) == IF s = <<>> THEN 0 ELSE Head(s) + SumSeq(Tail(s))

\* sum of f over the finite set S
RECURSIVE SumOver(_, _)
SumOver(S, f) ==
    IF S = {} THEN 0
    ELSE LET c == CHOOSE x \in S : TRUE IN f[c] + SumOver(S \ {c}, f)

Column(D, j) == [i \in 1 .. Len(D) |-> D[i][j]]

\* floor of the square root
ISqrt(v) == CHOOSE r \in 0 .. v : r * r <= v /\ (r + 1) * (r + 1) > v

Perms(n) == {p \in [1 .. n -> 1 .. n] : \A i, j \in 1 .. n : p[i] = p[j] => i = j}

\* the orders in which a neighbour search may return equidistant rows
TieOrders(n) == Perms(n)

\* rows of D at the increasing indices of the set I
RECURSIVE Rows(_, _)
Rows(D, I) ==
    IF I = {} THEN <<>>
    ELSE LET m == CHOOSE i \in I : \A j \in I : i <= j
         IN <<D[m]>> \o Rows(D, I \ {m})

\* ------------------------------------------------------ train_test_split
\* default test_size = 0.25: n_test = ceil(0.25 * n)
NTest(n) == (n + 3) \div 4

\* ------------------------------------------------- KNeighborsClassifier
NoModel == [fitted |-> FALSE, k |-> 0, fitX |-> <<>>, fity |-> <<>>, order |-> <<>>]

\* variant of SqDist: the differences are summed without being squared
SqDist_NoSquare(a, b) == SumSeq([j \in 1 .. NFeat |-> a[j] - b[j]])

\* squared Euclidean distance (minkowski, p = 2)
SqDist(a, b) == SumSeq([j \in 1 .. NFeat |-> (a[j] - b[j]) * (a[j] - b[j])])

\* row i is returned before row j by a neighbour search with distances d:
\* equidistant rows come in the order fixed when the model was fit
Closer(d, order, i, j) ==
    \/ d[i] < d[j]
    \/ d[i] = d[j] /\ order[i] < order[j]

\* variant of KNeighbors: one row too many
KNeighbors_OneMore(m, q) ==
    LET n == Len(m.fitX)
        d == [i \in 1 .. n |-> SqDist(m.fitX[i], q)]
    IN {i \in 1 .. n : Cardinality({j \in 1 .. n : Closer(d, m.order, j, i)}) <= m.k}

\* variant of KNeighbors: one row too few
KNeighbors_OneLess(m, q) ==
    LET n == Len(m.fitX)
        d == [i \in 1 .. n |-> SqDist(m.fitX[i], q)]
    IN {i \in 1 .. n : Cardinality({j \in 1 .. n : Closer(d, m.order, j, i)}) < m.k - 1}

\* kneighbors: indices of the k nearest stored rows
KNeighbors(m, q) ==
    LET n == Len(m.fitX)
        d == [i \in 1 .. n |-> SqDist(m.fitX[i], q)]
    IN {i \in 1 .. n : Cardinality({j \in 1 .. n : Closer(d, m.order, j, i)}) < m.k}

\* classes_: the labels seen by fit
Classes(m) == {m.fity[i] : i \in 1 .. Len(m.fity)}

\* number of neighbours of q per class
Votes(m, q) ==
    LET nb == KNeighbors(m, q)
    IN [c \in Classes(m) |-> Cardinality({i \in nb : m.fity[i] = c})]

\* variant of Mode: the largest label among equally frequent ones
Mode_HighestLabel(v) ==
    CHOOSE c \in DOMAIN v :
        \A d \in DOMAIN v : v[d] < v[c] \/ (v[d] = v[c] /\ c >= d)

\* the mode of the votes v, the smallest label among equally frequent ones
Mode(v) ==
    CHOOSE c \in DOMAIN v :
        \A d \in DOMAIN v : v[d] < v[c] \/ (v[d] = v[c] /\ c <= d)

\* predict on one row
PredictOne(m, q) == Mode(Votes(m, q))

Predict(m, D) == [i \in 1 .. Len(D) |-> PredictOne(m, D[i])]

\* predict_proba on one row: neighbour counts per class, normalised by
\* their sum (proba / proba.sum)
PredictProba(m, q) ==
    LET v == Votes(m, q)
    IN [counts |-> v, den |-> SumOver(DOMAIN v, v)]

\* KNeighborsClassifier(n_neighbors=k).fit(D, lab); o is the order in which
\* the neighbour search of the fitted object returns equidistant rows
Fit(D, lab, k, o) ==
    IF k <= 0 \/ Len(D) # Len(lab) \/ Len(D) = 0
    THEN [fitted |-> FALSE, k |-> k, fitX |-> <<>>, fity |-> <<>>, order |-> <<>>]
    ELSE [fitted |-> TRUE, k |-> k, fitX |-> D, fity |-> lab, order |-> o]

FitError(D, lab, k) ==
    IF k <= 0 \/ Len(D) # Len(lab) \/ Len(D) = 0 THEN "ValueError" ELSE "none"

\* variant of PredictError: k is not compared with the number of stored rows
PredictError_NoSizeCheck(m) == IF ~m.fitted THEN "NotFittedError" ELSE "none"

\* variant of PredictCall: the call reverses the order of equidistant rows
PredictCall_Reorders(m, D) ==
    [labels |-> Predict(m, D),
     self |-> [m EXCEPT !.order = [i \in DOMAIN m.order |-> Len(m.order) + 1 - m.order[i]]]]

\* m.predict(D): the labels returned and the object m after the call
PredictCall(m, D) == [labels |-> Predict(m, D), self |-> m]

\* the exception raised by predict / predict_proba / kneighbors
PredictError(m) ==
    IF ~m.fitted THEN "NotFittedError"
    ELSE IF m.k > Len(m.fitX) THEN "ValueError"
    ELSE "none"

\* ---------------------------------------------------------------- scores
OkAcc(n, d) == [kind |-> "ok", num |-> n, den |-> d]
NoAcc(e) == [kind |-> e, num |-> 0, den |-> 0]

Matches(a, b) == Cardinality({i \in 1 .. Len(a) : a[i] = b[i]})

\* variant of accuracy_score: the positions that differ are counted
accuracy_score_Mismatches(y_true, y_pred) ==
    IF Len(y_true) # Len(y_pred) THEN NoAcc("ValueError")
    ELSE IF Len(y_true) = 0 THEN NoAcc("nan")
    ELSE OkAcc(Len(y_true) - Matches(y_true, y_pred), Len(y_true))

\* metrics.accuracy_score(y_true, y_pred)
accuracy_score(y_true, y_pred) ==
    IF Len(y_true) # Len(y_pred) THEN NoAcc("ValueError")
    ELSE IF Len(y_true) = 0 THEN NoAcc("nan")
    ELSE OkAcc(Matches(y_true, y_pred), Len(y_true))

\* float(sum(pred == y)) / len(y)
score(pred, yy) ==
    IF Len(pred) # Len(yy) THEN NoAcc("ValueError")
    ELSE IF Len(yy) = 0 THEN NoAcc("ZeroDivisionError")
    ELSE OkAcc(Matches(pred, yy), Len(yy))

\* a < b for two scores
AccLess(a, b) == a.num * b.den < b.num * a.den
AccEq(a, b) == a.num * b.den = b.num * a.den

\* ------------------------------------------------------ the result table
\* pd.DataFrame({'K': ks, 'training accuracy': tr, 'testing accuracy': te})
Frame(ks, tr, te) ==
    [i \in 1 .. Len(ks) |-> [K |-> ks[i], training |-> tr[i], testing |-> te[i]]]

\* variant of SortIndexDesc: ascending order
SortIndexAsc(f) ==
    [i \in 1 .. Len(f) |->
        f[CHOOSE j \in 1 .. Len(f) :
            Cardinality({l \in 1 .. Len(f) : f[l].K < f[j].K}) = i - 1]]

\* set_index('K').sort_index(ascending=False)
SortIndexDesc(f) ==
    [i \in 1 .. Len(f) |->
        f[CHOOSE j \in 1 .. Len(f) :
            Cardinality({l \in 1 .. Len(f) : f[l].K > f[j].K}) = i - 1]]

\* rows of the frame f with the greatest testing accuracy
TopRows(f) ==
    {i \in 1 .. Len(f) : \A j \in 1 .. Len(f) : ~AccLess(f[i].testing, f[j].testing)}

\* variant of MaxZip: the first greatest accuracy wins
MaxZip_FirstMax(accs, ks) ==
    LET i == CHOOSE a \in 1 .. Len(accs) :
                 \A b \in 1 .. Len(accs) :
                     \/ AccLess(accs[b], accs[a])
                     \/ AccEq(accs[b], accs[a]) /\ ks[a] <= ks[b]
    IN [acc |-> accs[i], k |-> ks[i]]

\* max over the tuples (accs[i], ks[i]): tuples compare by their first
\* component, then by their second
MaxZip(accs, ks) ==
    LET i == CHOOSE a \in 1 .. Len(accs) :
                 \A b \in 1 .. Len(accs) :
                     \/ AccLess(accs[b], accs[a])
                     \/ AccEq(accs[b], accs[a]) /\ ks[b] <= ks[a]
    IN [acc |-> accs[i], k |-> ks[i]]

\* -------------------------------------------------------- StandardScaler
NoScaler == [n |-> 0, sum |-> <<>>, sq |-> <<>>]

\* fit: mean_ = sum / n and var_ = sq / n - mean_^2 per column
ScalerFit(D) ==
    [n |-> Len(D),
     sum |-> [j \in 1 .. NFeat |-> SumSeq(Column(D, j))],
     sq |-> [j \in 1 .. NFeat |-> SumSeq([i \in 1 .. Len(D) |-> D[i][j] * D[i][j]])]]

\* n^2 * var_ of column j
NVar(s, j) == s.n * s.sq[j] - s.sum[j] * s.sum[j]

\* variant of ScaleValue: the value is centred and not divided by scale_
ScaleValue_CenterOnly(s, j, x) == (Scale * (s.n * x - s.sum[j])) \div s.n

\* transform of one value of column j: (x - mean_) / scale_, where scale_
\* is 1 for a constant column
ScaleValue(s, j, x) ==
    IF NVar(s, j) = 0
    THEN (s.n * x - s.sum[j]) \div s.n
    ELSE (Scale * Scale * (s.n * x - s.sum[j])) \div ISqrt(Scale * Scale * NVar(s, j))

Transform(s, D) == [i \in 1 .. Len(D) |-> [j \in 1 .. NFeat |-> ScaleValue(s, j, D[i][j])]]

\* ------------------------------------------------------------- the state
VARIABLES
    X, y,                   \* feature matrix and response vector of the data set
    test_idx,               \* rows that train_test_split put in the test set
    X_train, X_test, y_train, y_test,
    knn,                    \* the current KNeighborsClassifier object
    scaler,                 \* the StandardScaler object
    fit_log,                \* data sets the scaler has been fit on, in call order
    scores,                 \* [k, score] pairs of the sweep on the whole data set
    k_range, training_accuracies, testing_accuracies,
    df,                     \* DataFrame of K, training accuracy, testing accuracy
    out,                    \* output of the cell executed last
    pc,                     \* the cell to execute next
    calls,                  \* [query, label] pairs that knn.predict has returned
                            \* since knn was fit
    Xw, knn2,               \* the rescaled feature matrix and the model fit on it
    y_pred_class, y_pred_class_2,
    most_freq_class         \* the class of the null model, NoClass before it is set

vars == <<X, y, test_idx, X_train, X_test, y_train, y_test, knn, scaler, fit_log,
          scores, k_range, training_accuracies, testing_accuracies, df, out, pc,
          calls, Xw, knn2, y_pred_class, y_pred_class_2, most_freq_class>>

dataVars == <<X, y, test_idx, X_train, X_test, y_train, y_test>>
sweepVars == <<scores, k_range, training_accuracies, testing_accuracies, df>>
exerciseVars == <<Xw, knn2, y_pred_class, y_pred_class_2>>

NoOut == [kind |-> "none", err |-> "none", query |-> <<>>, val |-> <<>>]
NoClass == 0 - 1

\* lexicographic order on the rows (point, label) of a data set
RowLeq(a, la, b, lb) ==
    \/ \E j \in 1 .. NFeat : a[j] < b[j] /\ \A l \in 1 .. (j - 1) : a[l] = b[l]
    \/ a = b /\ la <= lb

\* X = nba[feature_cols]; y = nba.pos_num.  Nothing below depends on the
\* order of the rows of the file except through the order of equidistant
\* neighbours, which every fit chooses freely, and through the split, which
\* may select any rows: data sets are drawn up to the order of their rows.
DataSetOver(P, XX, yy) ==
    /\ XX \in [1 .. NRows -> P]
    /\ yy \in [1 .. NRows -> Labels]
    /\ \A i \in 1 .. (NRows - 1) : RowLeq(XX[i], yy[i], XX[i + 1], yy[i + 1])

DataSet(XX, yy) == DataSetOver(Points, XX, yy)

\* the state before any model is built
Fresh ==
    /\ knn = NoModel
    /\ scaler = NoScaler
    /\ fit_log = <<>>
    /\ scores = <<>>
    /\ k_range = <<>> /\ training_accuracies = <<>> /\ testing_accuracies = <<>>
    /\ df = <<>>
    /\ out = NoOut
    /\ calls = {}
    /\ most_freq_class = NoClass
    /\ Xw = <<>> /\ knn2 = NoModel
    /\ y_pred_class = <<>> /\ y_pred_class_2 = <<>>

\* the state after the data set is loaded, before train_test_split
InitKnn ==
    /\ DataSet(X, y)
    /\ test_idx = {}
    /\ X_train = <<>> /\ X_test = <<>> /\ y_train = <<>> /\ y_test = <<>>
    /\ Fresh
    /\ pc = "loaded"

\* the state after
\* X_train, X_test, y_train, y_test = train_test_split(X, y, random_state=99):
\* the shuffle puts some NTest rows in the test set
Init ==
    /\ DataSet(X, y)
    /\ test_idx \in {T \in SUBSET (1 .. NRows) : Cardinality(T) = NTest(NRows)}
    /\ X_train = Rows(X, (1 .. NRows) \ test_idx)
    /\ y_train = Rows(y, (1 .. NRows) \ test_idx)
    /\ X_test = Rows(X, test_idx)
    /\ y_test = Rows(y, test_idx)
    /\ Fresh
    /\ pc = "split"

Raise(e) == [NoOut EXCEPT !.kind = "error", !.err = e]

\* the rows of D paired with the labels labs that predict returned for them
Returned(D, labs) == {[query |-> D[i], label |-> labs[i]] : i \in 1 .. Len(D)}

\* ----------------------------------------- cells on the whole data set
\* one iteration of: for k in range(1, 478): fit(X, y); predict(X); score
FullSweepIter ==
    /\ pc \in {"loaded", "fullsweep"}
    /\ Len(scores) < Len(X) - 1
    /\ LET k == Len(scores) + 1 IN
       \E o \in TieOrders(Len(X)) :
         LET m == Fit(X, y, k, o)
             pred == Predict(m, X)
         IN
           /\ knn' = m
           /\ IF PredictError(m) = "none"
              THEN /\ scores' = Append(scores, [k |-> k, score |-> score(pred, y)])
                   /\ calls' = Returned(X, pred)
                   /\ out' = NoOut
                   /\ pc' = "fullsweep"
              ELSE /\ scores' = scores
                   /\ calls' = {}
                   /\ out' = Raise(PredictError(m))
                   /\ pc' = "error"
    /\ UNCHANGED <<dataVars, most_freq_class, exerciseVars, scaler, fit_log, k_range, training_accuracies,
                   testing_accuracies, df>>

\* knn = KNeighborsClassifier(n_neighbors=k); knn.fit(X, lab); knn.predict(q)
\* with the labels y, or with a label vector one entry short
FitPredictCell ==
    /\ pc = "loaded"
    /\ \E k \in 0 .. (Len(X) + 1), q \in Points, lab \in {y, Tail(y)} :
       \E o \in TieOrders(Len(X)) :
         LET m == Fit(X, lab, k, o) IN
           /\ knn' = m
           /\ out' = IF FitError(X, lab, k) # "none"
                     THEN [Raise(FitError(X, lab, k)) EXCEPT !.kind = "fit_error", !.val = lab]
                     ELSE IF PredictError(m) # "none"
                     THEN [Raise(PredictError(m)) EXCEPT !.query = q]
                     ELSE [kind |-> "label", err |-> "none", query |-> q,
                           val |-> PredictOne(m, q)]
           /\ calls' = IF out'.kind = "label"
                       THEN {[query |-> q, label |-> out'.val]}
                       ELSE {}
    /\ pc' = "predicted"
    /\ UNCHANGED <<dataVars, most_freq_class, exerciseVars, scaler, fit_log, sweepVars>>

\* knn.predict_proba(q), for the query of the cell before
PredictProbaCell ==
    /\ pc = "predicted"
    /\ out' = IF PredictError(knn) = "none"
              THEN [kind |-> "proba", err |-> "none", query |-> out.query,
                    val |-> PredictProba(knn, out.query)]
              ELSE Raise(PredictError(knn))
    /\ pc' = "proba"
    /\ UNCHANGED <<dataVars, most_freq_class, exerciseVars, calls, knn, scaler, fit_log, sweepVars>>

\* Xw["pf"] = Xw["pf"] * 1000
PfFactor == 1000
PfCol == NFeat
RescaledBy(D, c) == [i \in 1 .. Len(D) |-> [D[i] EXCEPT ![PfCol] = @ * c]]
Rescaled(D) == RescaledBy(D, PfFactor)

\* Xw = X.copy(); Xw["pf"] = Xw["pf"] * 1000
\* knn2 = KNeighborsClassifier(n_neighbors=14); knn2.fit(Xw, Yw)
\* y_pred_class_2 = knn2.predict(Xw); y_pred_class = knn.predict(X)
\* agree = y_pred_class == y_pred_class_2
\* knn2 is built with the same literal n_neighbors as knn
RescaleCell ==
    /\ pc = "proba"
    /\ \E o \in TieOrders(Len(X)) :
         LET xw == Rescaled(X)
             m2 == Fit(xw, y, knn.k, o)
             err2 == IF FitError(xw, y, knn.k) # "none"
                     THEN FitError(xw, y, knn.k)
                     ELSE PredictError(m2)
             call == PredictCall(knn, X)
             p2 == Predict(m2, xw)
         IN
           /\ Xw' = xw
           /\ knn2' = m2
           /\ y_pred_class_2' = IF err2 = "none" THEN p2 ELSE y_pred_class_2
           /\ IF err2 = "none" /\ PredictError(knn) = "none"
              THEN /\ y_pred_class' = call.labels
                   /\ knn' = call.self
                   /\ calls' = calls \cup Returned(X, call.labels)
                   /\ out' = [NoOut EXCEPT
                                !.kind = "agree",
                                !.val = [i \in 1 .. Len(X) |-> call.labels[i] = p2[i]]]
              ELSE /\ UNCHANGED <<y_pred_class, knn, calls>>
                   /\ out' = Raise(IF err2 # "none" THEN err2 ELSE PredictError(knn))
    /\ pc' = "rescaled"
    /\ UNCHANGED <<dataVars, most_freq_class, scaler, fit_log, sweepVars>>

NextKnn ==
    \/ FullSweepIter
    \/ FitPredictCell
    \/ PredictProbaCell

SpecKnn == InitKnn /\ [][NextKnn]_vars

\* -------------------------------------- cells on the train / test split
\* s.value_counts(): the number of entries of s per class
ValueCounts(s) ==
    [c \in {s[i] : i \in 1 .. Len(s)} |-> Cardinality({i \in 1 .. Len(s) : s[i] = c})]

\* the classes that value_counts(), sorted by descending count, may list first
TopClasses(vc) == {c \in DOMAIN vc : \A d \in DOMAIN vc : vc[d] <= vc[c]}

\* most_freq_class = y_test.value_counts().index[0]
MostFreqCell ==
    /\ pc = "split"
    /\ IF Len(y_test) = 0
       THEN /\ most_freq_class' = most_freq_class
            /\ out' = Raise("IndexError")
            /\ pc' = "error"
       ELSE /\ most_freq_class' \in TopClasses(ValueCounts(y_test))
            /\ out' = [NoOut EXCEPT !.kind = "most_freq_class", !.val = most_freq_class']
            /\ pc' = "mostfreq"
    /\ UNCHANGED <<dataVars, exerciseVars, calls, knn, scaler, fit_log, sweepVars>>

\* y_test.value_counts()[most_freq_class] / len(y_test)
NullAccuracyCell ==
    /\ pc = "mostfreq"
    /\ out' = [NoOut EXCEPT
                 !.kind = "null_accuracy",
                 !.val = OkAcc(ValueCounts(y_test)[most_freq_class], Len(y_test))]
    /\ pc' = "null"
    /\ UNCHANGED <<dataVars, most_freq_class, exerciseVars, calls, knn, scaler,
                   fit_log, sweepVars>>

\* k_range = list(range(1, 359)); training_accuracies = []; testing_accuracies = []
StartSweep ==
    /\ pc = "null"
    /\ k_range' = [i \in 1 .. Len(X_train) |-> i]
    /\ training_accuracies' = <<>>
    /\ testing_accuracies' = <<>>
    /\ pc' = "trainsweep"
    /\ UNCHANGED <<dataVars, most_freq_class, exerciseVars, calls, knn, scaler, fit_log, scores, df, out>>

\* one iteration of the sweep over k_range
TrainSweepIter ==
    /\ pc = "trainsweep"
    /\ Len(testing_accuracies) < Len(k_range)
    /\ LET k == k_range[Len(testing_accuracies) + 1] IN
       \E o \in TieOrders(Len(X_train)) :
         LET m == Fit(X_train, y_train, k, o)
             y_pred_train == Predict(m, X_train)
             y_pred_test == Predict(m, X_test)
         IN
           /\ knn' = m
           /\ IF PredictError(m) = "none"
              THEN /\ training_accuracies' =
                        Append(training_accuracies,
                               accuracy_score(y_train, y_pred_train))
                   /\ testing_accuracies' =
                        Append(testing_accuracies,
                               accuracy_score(y_test, y_pred_test))
                   /\ calls' = Returned(X_train, y_pred_train)
                                   \cup Returned(X_test, y_pred_test)
                   /\ out' = NoOut
                   /\ pc' = pc
              ELSE /\ UNCHANGED <<training_accuracies, testing_accuracies>>
                   /\ calls' = {}
                   /\ out' = Raise(PredictError(m))
                   /\ pc' = "error"
    /\ UNCHANGED <<dataVars, most_freq_class, exerciseVars, scaler, fit_log, scores, k_range, df>>

\* df = pd.DataFrame(column_dict).set_index('K').sort_index(ascending=False)
MakeFrame ==
    /\ pc = "trainsweep"
    /\ Len(testing_accuracies) = Len(k_range)
    /\ df' = SortIndexDesc(Frame(k_range, training_accuracies, testing_accuracies))
    /\ out' = NoOut
    /\ pc' = "frame"
    /\ UNCHANGED <<dataVars, most_freq_class, exerciseVars, calls, knn, scaler, fit_log, scores, k_range,
                   training_accuracies, testing_accuracies>>

\* df.sort_values('testing accuracy', ascending=False).head(): the sort is
\* not stable, any row of greatest testing accuracy may come first
SortValuesHead ==
    /\ pc = "frame"
    /\ \E i \in TopRows(df) : out' = [NoOut EXCEPT !.kind = "head", !.val = df[i]]
    /\ pc' = "ranked"
    /\ UNCHANGED <<dataVars, most_freq_class, exerciseVars, calls, knn, scaler, fit_log, sweepVars>>

\* max(list(zip(testing_accuracies, k_range)))
MaxZipCell ==
    /\ pc = "ranked"
    /\ out' = [NoOut EXCEPT !.kind = "max", !.val = MaxZip(testing_accuracies, k_range)]
    /\ pc' = "best"
    /\ UNCHANGED <<dataVars, most_freq_class, exerciseVars, calls, knn, scaler, fit_log, sweepVars>>

\* scaler = StandardScaler(copy=True)
\* X_train = scaler.fit_transform(X_train); X_test = scaler.fit_transform(X_test)
ScaleCell ==
    /\ pc = "best"
    /\ X_train' = Transform(ScalerFit(X_train), X_train)
    /\ X_test' = Transform(ScalerFit(X_test), X_test)
    /\ scaler' = ScalerFit(X_test)
    /\ fit_log' = <<"X_train", "X_test">>
    /\ out' = NoOut
    /\ pc' = "scaled"
    /\ UNCHANGED <<most_freq_class, exerciseVars, calls, X, y, test_idx, y_train, y_test, knn, sweepVars>>

\* k_range = list(range(1, 348)); training_accuracies = []; testing_accuracies = []
StartScaledSweep ==
    /\ pc = "scaled"
    /\ k_range' = [i \in 1 .. (Len(X_train) - 1) |-> i]
    /\ training_accuracies' = <<>>
    /\ testing_accuracies' = <<>>
    /\ pc' = "scaledsweep"
    /\ UNCHANGED <<dataVars, most_freq_class, exerciseVars, calls, knn, scaler, fit_log, scores, df, out>>

\* one iteration of the sweep on the standardized split: the model is fit on
\* X_train, "training accuracy" is scored by predicting X against y
ScaledSweepIter ==
    /\ pc = "scaledsweep"
    /\ Len(testing_accuracies) < Len(k_range)
    /\ LET k == k_range[Len(testing_accuracies) + 1] IN
       \E o \in TieOrders(Len(X_train)) :
         LET m == Fit(X_train, y_train, k, o)
             y_pred_train == Predict(m, X)
             y_pred_test == Predict(m, X_test)
         IN
           /\ knn' = m
           /\ IF PredictError(m) = "none"
              THEN /\ training_accuracies' =
                        Append(training_accuracies, accuracy_score(y, y_pred_train))
                   /\ testing_accuracies' =
                        Append(testing_accuracies,
                               accuracy_score(y_test, y_pred_test))
                   /\ calls' = Returned(X, y_pred_train)
                                   \cup Returned(X_test, y_pred_test)
                   /\ out' = NoOut
                   /\ pc' = pc
              ELSE /\ UNCHANGED <<training_accuracies, testing_accuracies>>
                   /\ calls' = {}
                   /\ out' = Raise(PredictError(m))
                   /\ pc' = "error"
    /\ UNCHANGED <<dataVars, most_freq_class, exerciseVars, scaler, fit_log, scores, k_range, df>>

Next ==
    \/ MostFreqCell
    \/ NullAccuracyCell
    \/ StartSweep
    \/ TrainSweepIter
    \/ MakeFrame
    \/ SortValuesHead
    \/ MaxZipCell
    \/ ScaleCell
    \/ StartScaledSweep
    \/ ScaledSweepIter

Spec == Init /\ [][Next]_vars

\* the cells on the whole data set and the cells on the split together
InitAll == Init \/ InitKnn
NextAll == Next \/ NextKnn
SpecAll == InitAll /\ [][NextAll]_vars

\* every cell that fits a model or asks one for predictions
NextCells == NextAll \/ RescaleCell
SpecCells == InitAll /\ [][NextCells]_vars

\* ------------------------------- standardizing the rescaled feature matrix
\* the factors of a rescaling of the column pf
Factors == 2 .. MaxFactor

\* feature vectors whose columns have ranges of different widths
WidePoints ==
    {p \in [1 .. NFeat -> {Scale * v : v \in 0 .. MaxWide}] : p[PfCol] \in RawVals}

\* a data set X, y, all of it used for training, and a copy Xw of X whose
\* column pf is multiplied by a factor
InitScale ==
    /\ DataSetOver(WidePoints, X, y)
    /\ \E c \in Factors : Xw = RescaledBy(X, c)
    /\ test_idx = {}
    /\ X_train = X /\ y_train = y
    /\ X_test = <<>> /\ y_test = <<>>
    /\ knn = NoModel /\ knn2 = NoModel
    /\ scaler = NoScaler
    /\ fit_log = <<>>
    /\ scores = <<>>
    /\ k_range = <<>> /\ training_accuracies = <<>> /\ testing_accuracies = <<>>
    /\ df = <<>>
    /\ out = NoOut
    /\ calls = {}
    /\ most_freq_class = NoClass
    /\ y_pred_class = <<>> /\ y_pred_class_2 = <<>>
    /\ pc = "copied"

\* scaler = StandardScaler(copy=True); X_train = scaler.fit_transform(X_train)
\* and the same for the rescaled copy
StandardizeCell ==
    /\ pc = "copied"
    /\ X_train' = Transform(ScalerFit(X_train), X_train)
    /\ Xw' = Transform(ScalerFit(Xw), Xw)
    /\ scaler' = ScalerFit(Xw)
    /\ fit_log' = <<"X_train", "Xw">>
    /\ out' = NoOut
    /\ pc' = "standardized"
    /\ UNCHANGED <<X, y, test_idx, X_test, y_train, y_test, most_freq_class, knn, knn2,
                   y_pred_class, y_pred_class_2, calls, sweepVars>>

\* knn.fit(X_train, y_train); knn2.fit(Xw, Yw) with the same n_neighbors
\* y_pred_class_2 = knn2.predict(Xw); y_pred_class = knn.predict(X_train)
\* agree = y_pred_class == y_pred_class_2
CompareCell ==
    /\ pc = "standardized"
    /\ \E k \in 1 .. Len(X_train) :
       \E o, o2 \in TieOrders(Len(X_train)) :
         LET m == Fit(X_train, y_train, k, o)
             m2 == Fit(Xw, y_train, k, o2)
             p == Predict(m, X_train)
             p2 == Predict(m2, Xw)
         IN
           /\ knn' = m
           /\ knn2' = m2
           /\ y_pred_class' = p
           /\ y_pred_class_2' = p2
           /\ calls' = Returned(X_train, p)
           /\ out' = [NoOut EXCEPT !.kind = "agree",
                                   !.val = [i \in 1 .. Len(X_train) |-> p[i] = p2[i]]]
    /\ pc' = "compared"
    /\ UNCHANGED <<dataVars, most_freq_class, Xw, scaler, fit_log, sweepVars>>

NextScale ==
    \/ StandardizeCell
    \/ CompareCell

SpecScale == InitScale /\ [][NextScale]_vars

\* ------------------------------------------------- the scores by themselves
\* two label vectors of any lengths up to MaxLen
InitAcc ==
    /\ X = <<>>
    /\ y \in LabelSeqs
    /\ test_idx = {}
    /\ X_train = <<>> /\ X_test = <<>> /\ y_train = <<>> /\ y_test = <<>>
    /\ Fresh
    /\ pc = "metrics"

\* metrics.accuracy_score(y, y_pred_class)
AccuracyCell ==
    /\ pc = "metrics"
    /\ \E pred \in LabelSeqs :
         out' = [kind |-> "accuracy_score", err |-> "none", query |-> pred,
                 val |-> accuracy_score(y, pred)]
    /\ pc' = "scored"
    /\ UNCHANGED <<dataVars, most_freq_class, exerciseVars, calls, knn, scaler, fit_log, sweepVars>>

\* float(sum(pred == y)) / len(y)
ScoreCell ==
    /\ pc = "metrics"
    /\ \E pred \in LabelSeqs :
         out' = [kind |-> "score", err |-> "none", query |-> pred,
                 val |-> score(pred, y)]
    /\ pc' = "scored"
    /\ UNCHANGED <<dataVars, most_freq_class, exerciseVars, calls, knn, scaler, fit_log, sweepVars>>

NextAcc ==
    \/ AccuracyCell
    \/ ScoreCell

SpecAcc == InitAcc /\ [][NextAcc]_vars

\* =================================================================== claims
\* helpers of the claims, stated apart from the operators of the model
EuclidSq(a, b) == SumSeq([j \in 1 .. Len(a) |-> (a[j] - b[j]) * (a[j] - b[j])])

\* the sets of k rows of D such that no row outside is nearer to q than a row inside
NearestSets(D, q, k) ==
    {S \in SUBSET (1 .. Len(D)) :
        /\ Cardinality(S) = k
        /\ \A i \in S, j \in (1 .. Len(D)) \ S : EuclidSq(D[i], q) <= EuclidSq(D[j], q)}

\* the k nearest rows of D, equidistant rows taken by first occurrence
FirstOccurrenceSet(D, q, k) ==
    {i \in 1 .. Len(D) :
        Cardinality({j \in 1 .. Len(D) :
            \/ EuclidSq(D[j], q) < EuclidSq(D[i], q)
            \/ EuclidSq(D[j], q) = EuclidSq(D[i], q) /\ j < i}) < k}

CountOf(S, lab, c) == Cardinality({i \in S : lab[i] = c})

\* c has the most votes among the rows S, and is the lowest such label
IsLowestTop(S, lab, c) ==
    /\ CountOf(S, lab, c) > 0
    /\ \A d \in Labels :
        \/ CountOf(S, lab, d) < CountOf(S, lab, c)
        \/ CountOf(S, lab, d) = CountOf(S, lab, c) /\ c <= d

\* testing accuracy of entry a is at most that of entry b
AtMost(a, b) == a.num * b.den <= b.num * a.den
SameValue(a, b) == a.num * b.den = b.num * a.den

\* ---- C1
\* C1 (as stated): the best k reported for a sweep has the maximum testing
\* accuracy of the sweep, and among the k values sharing that maximum it is
\* the smallest.
C1_SmallestOnTie ==
    out.kind = "max" =>
        \A j \in 1 .. Len(k_range) :
            /\ AtMost(testing_accuracies[j], out.val.acc)
            /\ SameValue(testing_accuracies[j], out.val.acc) => out.val.k <= k_range[j]

\* C1 (amended): max(list(zip(testing_accuracies, k_range))) yields an entry
\* of the sweep whose testing accuracy is the maximum; among the k values
\* sharing that maximum it yields the largest.  The first row of the frame
\* sorted by testing accuracy has the maximum testing accuracy too.
C1_LargestOnTie ==
    /\ out.kind = "max" =>
        /\ \E i \in 1 .. Len(k_range) :
             k_range[i] = out.val.k /\ testing_accuracies[i] = out.val.acc
        /\ \A j \in 1 .. Len(k_range) :
             /\ AtMost(testing_accuracies[j], out.val.acc)
             /\ SameValue(testing_accuracies[j], out.val.acc) => k_range[j] <= out.val.k
    /\ out.kind = "head" =>
        /\ \E i \in 1 .. Len(k_range) :
             /\ k_range[i] = out.val.K
             /\ testing_accuracies[i] = out.val.testing
        /\ \A j \in 1 .. Len(k_range) : AtMost(testing_accuracies[j], out.val.testing)

\* some other k of the sweep ties with the reported one, and some k is worse
C1_Witness ==
    /\ out.kind = "max"
    /\ \E j \in 1 .. Len(k_range) :
         k_range[j] # out.val.k /\ SameValue(testing_accuracies[j], out.val.acc)

\* ---- C2
\* the scores a fresh fit on (X_train, y_train) with k gets on the training
\* set and on the test set
TrainScores(k) ==
    {accuracy_score(y_train, Predict(Fit(X_train, y_train, k, o), X_train)) :
        o \in Perms(Len(X_train))}
TestScores(k) ==
    {accuracy_score(y_test, Predict(Fit(X_train, y_train, k, o), X_test)) :
        o \in Perms(Len(X_train))}

\* C2: in every iteration of every K-sweep the recorded training accuracy is
\* the accuracy of the model, fit on the training set, on that same training
\* set (same rows, same representation) against its labels, and the recorded
\* testing accuracy is its accuracy on the test set.
C2_TrainingAccuracyOnTrainingSet ==
    pc \in {"trainsweep", "scaledsweep"} =>
        \A i \in 1 .. Len(testing_accuracies) :
            /\ \E a \in TrainScores(k_range[i]) : SameValue(training_accuracies[i], a)
            /\ \E a \in TestScores(k_range[i]) : SameValue(testing_accuracies[i], a)

\* ---- C3
RawTrain == Rows(X, (1 .. Len(X)) \ test_idx)
RawTest == Rows(X, test_idx)

\* C3: the scaler is fit exactly once, on a reference set, and the training
\* data and the test data are both transformed with the mean and standard
\* deviation stored by that one fit; the test data is never transformed with
\* statistics of the test data.
C3_ScalerFitOnce ==
    pc \in {"scaled", "scaledsweep"} =>
        /\ Len(fit_log) = 1
        /\ scaler = ScalerFit(RawTrain)
        /\ X_train = Transform(scaler, RawTrain)
        /\ X_test = Transform(scaler, RawTest)

\* ---- C4
\* the scenario of the specification at twice its unit: training points
\* 0, 1, 10, 11 labelled A, A, B, B (here 0, 0, 1, 1) and the queries 0.5, 10.5
ExamplePoint(v) == [j \in 1 .. NFeat |-> v * Scale]
ExampleX == <<ExamplePoint(0), ExamplePoint(2), ExamplePoint(20), ExamplePoint(22)>>
ExampleY == <<0, 0, 1, 1>>
ExampleHolds ==
    \A o \in Perms(4) :
        /\ PredictOne(Fit(ExampleX, ExampleY, 1, o), ExamplePoint(1)) = 0
        /\ PredictOne(Fit(ExampleX, ExampleY, 1, o), ExamplePoint(21)) = 1

\* C4 (as stated): predict returns the label with the most votes among the k
\* stored rows nearest to the query, rows at equal distance being taken by
\* first occurrence in the training set and equal votes going to the lowest
\* label; the scenario 0->A, 1->A, 10->B, 11->B with k = 1 gives A for 0.5
\* and B for 10.5.
C4_FirstOccurrence ==
    /\ ExampleHolds
    /\ out.kind = "label" =>
         IsLowestTop(FirstOccurrenceSet(knn.fitX, out.query, knn.k), knn.fity, out.val)

\* C4 (amended): predict returns the label with the most votes among k stored
\* rows such that no other stored row is nearer to the query, equal votes
\* going to the lowest label; which of the rows at equal distance at the k-th
\* boundary are among the k is not fixed to first occurrence.  The scenario
\* gives A for 0.5 and B for 10.5.
C4_NearestVote ==
    /\ ExampleHolds
    /\ out.kind = "label" =>
         \E S \in NearestSets(knn.fitX, out.query, knn.k) :
             IsLowestTop(S, knn.fity, out.val)

\* a prediction for which the rows at the k-th boundary are equidistant and
\* the neighbours' votes are tied
C4_Witness ==
    /\ out.kind = "label"
    /\ Cardinality(NearestSets(knn.fitX, out.query, knn.k)) > 1
    /\ \E S \in NearestSets(knn.fitX, out.query, knn.k) :
         /\ IsLowestTop(S, knn.fity, out.val)
         /\ \E d \in Labels : d # out.val /\ CountOf(S, knn.fity, d) = CountOf(S, knn.fity, out.val)

\* ---- C5
\* C5: predict_proba gives each label the number of the k nearest neighbours
\* carrying it, over k: the counts add up to k, the probabilities to 1.
C5_ProbaCounts ==
    out.kind = "proba" =>
        /\ out.val.den = knn.k
        /\ \E S \in NearestSets(knn.fitX, out.query, knn.k) :
             \A c \in DOMAIN out.val.counts : out.val.counts[c] = CountOf(S, knn.fity, c)
        /\ SumOver(DOMAIN out.val.counts, out.val.counts) = knn.k

\* probabilities of a query whose k < n neighbours carry two different labels
C5_Witness ==
    /\ out.kind = "proba"
    /\ knn.k < Len(knn.fitX)
    /\ \E c, d \in DOMAIN out.val.counts :
         c # d /\ out.val.counts[c] > 0 /\ out.val.counts[d] > 0

\* ---- C6
\* the label vector handed to the fit of the cell executed last
FitLabels == IF out.kind = "fit_error" THEN out.val ELSE knn.fity

\* C6 (as stated): fit fails when k <= 0 or when the numbers of feature
\* vectors and of labels differ, and fails when k exceeds the number of
\* training examples; no sweep iteration fits or predicts with a k larger
\* than the set it was fit on.
C6_FitRejectsLargeK ==
    /\ pc = "predicted" =>
         (out.kind = "fit_error" <=>
            (knn.k <= 0 \/ Len(FitLabels) # Len(X) \/ knn.k > Len(X)))
    /\ pc \in {"fullsweep", "trainsweep", "scaledsweep"} /\ knn.fitted =>
         knn.k <= Len(knn.fitX)

\* C6 (amended): fit fails when k <= 0 or when the numbers of feature vectors
\* and of labels differ; when k exceeds the number of training examples fit
\* succeeds and stores the training set, and it is the following predict that
\* fails; no sweep iteration fits or predicts with a k larger than the set it
\* was fit on, and no sweep raises an error.
C6_PredictRejectsLargeK ==
    /\ pc = "predicted" =>
         /\ out.kind = "fit_error" <=> (knn.k <= 0 \/ Len(FitLabels) # Len(X))
         /\ out.kind = "fit_error" <=> ~knn.fitted
         /\ knn.fitted => knn.fitX = X
         /\ knn.fitted /\ knn.k > Len(X) => out.kind = "error" /\ out.err = "ValueError"
         /\ knn.fitted /\ knn.k <= Len(X) => out.kind = "label"
    /\ pc \in {"fullsweep", "trainsweep", "scaledsweep"} /\ knn.fitted =>
         knn.k <= Len(knn.fitX)
    /\ pc # "error"

\* a model fit with more neighbours than training examples
C6_Witness ==
    pc = "predicted" /\ knn.fitted /\ knn.k > Len(knn.fitX) /\ out.err = "ValueError"

\* ---- C7
MatchCount(a, b) == Cardinality({i \in 1 .. Len(a) : a[i] = b[i]})

\* C7 (as stated): the accuracy of two non-empty label vectors of equal
\* length is the number of positions where they agree over the number of
\* positions, a fraction in [0, 1]; for vectors of different lengths or empty
\* vectors the call fails instead of returning a value.
C7_FailsOnEmpty ==
    out.kind \in {"accuracy_score", "score"} =>
        IF Len(y) = Len(out.query) /\ Len(y) > 0
        THEN /\ out.val.kind = "ok"
             /\ out.val.num = MatchCount(out.query, y)
             /\ out.val.den = Len(y)
        ELSE out.val.kind \notin {"ok", "nan"}

\* C7 (amended): the accuracy of two non-empty label vectors of equal length
\* is the number of positions where they agree over the number of positions,
\* a fraction in [0, 1]; for vectors of different lengths the call fails; for
\* two empty vectors the notebook's own quotient fails with a division by
\* zero while metrics.accuracy_score returns NaN instead of failing.
C7_Accuracy ==
    out.kind \in {"accuracy_score", "score"} =>
        IF Len(y) # Len(out.query) THEN out.val.kind = "ValueError"
        ELSE IF Len(y) = 0
        THEN out.val.kind = IF out.kind = "score" THEN "ZeroDivisionError" ELSE "nan"
        ELSE /\ out.val.kind = "ok"
             /\ out.val.num = MatchCount(out.query, y)
             /\ out.val.den = Len(y)
             /\ 0 <= out.val.num /\ out.val.num <= out.val.den

\* accuracy_score of two vectors that agree somewhere and differ somewhere
C7_Witness ==
    /\ out.kind = "accuracy_score"
    /\ out.val.kind = "ok"
    /\ 0 < out.val.num /\ out.val.num < out.val.den

\* ---- C8
Distinct(D) == \A i, j \in 1 .. Len(D) : D[i] = D[j] => i = j

\* C8: with k = 1 and pairwise distinct training points, predict on a
\* training point returns that point's label, and the accuracy of the model
\* on its own training set is 1.
C8_SelfMatch ==
    /\ Distinct(X) /\ Len(scores) >= 1 =>
         /\ scores[1].k = 1
         /\ scores[1].score.kind = "ok"
         /\ scores[1].score.num = Len(X)
         /\ scores[1].score.den = Len(X)
    /\ out.kind = "label" /\ knn.k = 1 /\ Distinct(knn.fitX) =>
         \A i \in 1 .. Len(knn.fitX) : knn.fitX[i] = out.query => out.val = knn.fity[i]

\* the sweep has scored k = 1 on distinct points that carry different labels
C8_Witness ==
    /\ Distinct(X)
    /\ Len(scores) >= 1
    /\ \E i, j \in 1 .. Len(y) : y[i] # y[j]

\* ---- C9
\* C9: with k equal to the number of training examples, predict returns for
\* every query the most frequent label of the training set.
C9_MajorityAtFullK ==
    out.kind = "label" /\ knn.k = Len(knn.fitX) =>
        \A d \in Labels :
            CountOf(1 .. Len(knn.fity), knn.fity, d)
                <= CountOf(1 .. Len(knn.fity), knn.fity, out.val)

\* a query whose nearest training point does not carry the majority label
C9_Witness ==
    /\ out.kind = "label"
    /\ knn.k = Len(knn.fitX)
    /\ \E i \in 1 .. Len(knn.fitX) :
         /\ knn.fity[i] # out.val
         /\ \A j \in 1 .. Len(knn.fitX) :
              j # i => EuclidSq(knn.fitX[i], out.query) < EuclidSq(knn.fitX[j], out.query)

\* ---- C10
\* the scores one iteration of the running sweep gives for k alone
FreshTrainScores(k) ==
    IF pc = "scaledsweep"
    THEN {accuracy_score(y, Predict(Fit(X_train, y_train, k, o), X)) :
             o \in Perms(Len(X_train))}
    ELSE TrainScores(k)

\* C10 (as stated): the i-th entry of the sweep result is k_values[i] with
\* the training and testing accuracy of a single fresh fit with k_values[i]:
\* the result keeps the order of k_values.
C10_InputOrder ==
    pc \in {"frame", "ranked", "best"} =>
        /\ Len(df) = Len(k_range)
        /\ \A i \in 1 .. Len(k_range) :
             /\ df[i].K = k_range[i]
             /\ df[i].training \in TrainScores(k_range[i])
             /\ df[i].testing \in TestScores(k_range[i])

\* C10 (amended): the i-th entries of training_accuracies and of
\* testing_accuracies are the scores of a single fresh fit with k_range[i],
\* whatever was processed before; the lists keep the order of k_range.  The
\* table df holds the same triples in the order of decreasing K.
C10_ListsInOrderFrameDescending ==
    /\ pc \in {"trainsweep", "scaledsweep"} =>
         /\ Len(training_accuracies) = Len(testing_accuracies)
         /\ Len(testing_accuracies) <= Len(k_range)
         /\ \A i \in 1 .. Len(testing_accuracies) :
              /\ training_accuracies[i] \in FreshTrainScores(k_range[i])
              /\ testing_accuracies[i] \in TestScores(k_range[i])
    /\ pc \in {"frame", "ranked", "best"} =>
         /\ Len(df) = Len(k_range)
         /\ \A i \in 1 .. Len(df) :
              LET r == Len(df) + 1 - i IN
                /\ df[i].K = k_range[r]
                /\ df[i].training = training_accuracies[r]
                /\ df[i].testing = testing_accuracies[r]
         /\ \A i \in 1 .. (Len(df) - 1) : df[i].K > df[i + 1].K

\* a table of several rows whose accuracies differ from row to row
C10_Witness ==
    /\ pc = "frame"
    /\ Len(df) >= 2
    /\ ~SameValue(df[1].testing, df[2].testing)
    /\ ~SameValue(df[1].training, df[2].training)

\* ---------------------------------------------------------------------- C11
\* the steps that fit the object knn: the loop bodies of the three sweeps
\* and the cell that builds the model on the whole data set
FitSteps == pc \in {"loaded", "fullsweep", "trainsweep", "scaledsweep"}

\* knn.predict has returned one label only for every query since the last fit
CallsAgree == \A a, b \in calls : a.query = b.query => a.label = b.label

C13_TrainingSetMode ==
    /\ most_freq_class # NoClass =>
           most_freq_class \in TopClasses(ValueCounts(y_train))
    /\ out.kind = "null_accuracy" =>
           \E c \in TopClasses(ValueCounts(y_train)) :
               out.val = OkAcc(Cardinality({i \in 1 .. Len(y_test) : y_test[i] = c}),
                               Len(y_test))
====
